---- MODULE Spec2Model ----
(***************************************************************************)
(* Model of jiddra.py: LocalBufferFile, a read-only decoder of a block     *)
(* file.  The file is a sequence of bytes; the decoder's reads are slices  *)
(* of that sequence, its exceptions are records [cls, msg].                *)
(***************************************************************************)
EXTENDS Integers, Sequences, FiniteSets, TLC

VARIABLES file, gen, pc, magic_number, file_id, version, block_size,
          first_free_block, user_param_count, user_params, f_pos, p_i,
          exc, block_id, idx, printed, arg, ret

vars == <<file, gen, pc, magic_number, file_id, version, block_size,
          first_free_block, user_param_count, user_params, f_pos, p_i,
          exc, block_id, idx, printed, arg, ret>>

\* ------------------------------------------------------------------ bounds
MaxParams == 2
MaxBlocks == 2

\* ------------------------------------------------------- program constants
HeaderLen == 32
PrefixLen == 5

\* --------------------------------------------------------------- utilities
Min(a, b) == IF a < b THEN a ELSE b

Take(s, n) == SubSeq(s, 1, Min(n, Len(s)))

RECURSIVE Concat(_)
Concat(ss) == IF ss = <<>> THEN <<>> ELSE Head(ss) \o Concat(Tail(ss))

SeqsUpTo(S, n) == UNION {[1..k -> S] : k \in 0..n}

\* an unset local or result; a set one is the one-element sequence <<v>>
None == <<>>

NoResult == [exc |-> [cls |-> "none", msg |-> "no call"]]

\* -------------------------------------------------------------- exceptions
NoExc == [cls |-> "none", msg |-> ""]

HeaderTooShort == [cls |-> "ValueError",
                   msg |-> "File is too short to contain a valid header."]
NameLengthShort == [cls |-> "ValueError",
    msg |-> "Unexpected end of file while reading parameter name length."]
NameShort == [cls |-> "ValueError",
    msg |-> "Unexpected end of file while reading parameter name."]
ValueShort == [cls |-> "ValueError",
    msg |-> "Unexpected end of file while reading parameter value."]
BlockOutOfRange == [cls |-> "ValueError", msg |-> "Block index out of range."]

\* raised by the library calls the decoder makes
ReadLengthError == [cls |-> "ValueError",
                    msg |-> "read length must be non-negative or -1"]
StructError == [cls |-> "struct.error",
                msg |-> "unpack requires a buffer of 4 bytes"]
SeekError == [cls |-> "OSError", msg |-> "[Errno 22] Invalid argument"]
DecodeError == [cls |-> "UnicodeDecodeError",
                msg |-> "'utf-8' codec can't decode"]

\* what `except ValueError` catches: ValueError and its subclasses
CaughtByExceptValueError(e) == e.cls \in {"ValueError", "UnicodeDecodeError"}

\* ------------------------------------------------------------ file reading
\* f.read(n) at cursor pos: up to n bytes, all remaining bytes when n = -1
Read(f, pos, n) ==
    IF pos >= Len(f) THEN <<>>
    ELSE IF n = -1 THEN SubSeq(f, pos + 1, Len(f))
    ELSE SubSeq(f, pos + 1, Min(pos + n, Len(f)))

\* a read that accepts every length
ReadRaises_Never(n) == FALSE

\* f.read(n) raises ValueError for n < -1
ReadRaises(n) == n < -1

\* f.seek(offset) raises OSError for a negative offset
SeekRaises(offset) == offset < 0

\* struct.unpack('>i', b): big-endian signed 32-bit
Unpack_i(b) ==
    (IF b[1] >= 128 THEN b[1] - 256 ELSE b[1]) * 16777216
        + b[2] * 65536 + b[3] * 256 + b[4]

\* struct.unpack('>q', b): big-endian signed 64-bit, kept as the pair of its
\* signed 32-bit words <<high, low>>
Unpack_q(b) == <<Unpack_i(SubSeq(b, 1, 4)), Unpack_i(SubSeq(b, 5, 8))>>

\* struct.unpack('>qqiiii', header)
UnpackHeader(h) ==
    <<Unpack_q(SubSeq(h, 1, 8)), Unpack_q(SubSeq(h, 9, 16)),
      Unpack_i(SubSeq(h, 17, 20)), Unpack_i(SubSeq(h, 21, 24)),
      Unpack_i(SubSeq(h, 25, 28)), Unpack_i(SubSeq(h, 29, 32))>>

\* ------------------------------------------------------------------- UTF-8
IsCont(b) == b >= 128 /\ b <= 191

\* number of bytes of the UTF-8 sequence starting s, 0 when s starts with no
\* valid sequence (strict decoding: no overlong forms, no surrogates)
Utf8SeqLen(s) ==
    LET b == s[1] IN
    IF b < 128 THEN 1
    ELSE IF b >= 194 /\ b <= 223
        THEN IF Len(s) >= 2 /\ IsCont(s[2]) THEN 2 ELSE 0
    ELSE IF b >= 224 /\ b <= 239
        THEN IF /\ Len(s) >= 3
                /\ IsCont(s[2]) /\ IsCont(s[3])
                /\ (b = 224 => s[2] >= 160)
                /\ (b = 237 => s[2] <= 159)
             THEN 3 ELSE 0
    ELSE IF b >= 240 /\ b <= 244
        THEN IF /\ Len(s) >= 4
                /\ IsCont(s[2]) /\ IsCont(s[3]) /\ IsCont(s[4])
                /\ (b = 240 => s[2] >= 144)
                /\ (b = 244 => s[2] <= 143)
             THEN 4 ELSE 0
    ELSE 0

Utf8CodePoint(s, n) ==
    IF n = 1 THEN s[1]
    ELSE IF n = 2 THEN (s[1] - 192) * 64 + (s[2] - 128)
    ELSE IF n = 3 THEN (s[1] - 224) * 4096 + (s[2] - 128) * 64 + (s[3] - 128)
    ELSE (s[1] - 240) * 262144 + (s[2] - 128) * 4096
             + (s[3] - 128) * 64 + (s[4] - 128)

\* bytes.decode('utf-8'): the code points, or a failure
RECURSIVE Utf8Decode(_)
Utf8Decode(s) ==
    IF s = <<>> THEN [ok |-> TRUE, chars |-> <<>>]
    ELSE LET n == Utf8SeqLen(s) IN
         IF n = 0 THEN [ok |-> FALSE, chars |-> <<>>]
         ELSE LET rest == Utf8Decode(SubSeq(s, n + 1, Len(s))) IN
              IF rest.ok
              THEN [ok |-> TRUE, chars |-> <<Utf8CodePoint(s, n)>> \o rest.chars]
              ELSE rest

\* ------------------------------------------------------ the file on disk
\* struct.pack('>i', v): the writer's side of the format (FILE FORMAT comment)
Pack_i(v) ==
    <<(v \div 16777216) % 256, (v \div 65536) % 256, (v \div 256) % 256, v % 256>>

\* the encoder of the parameter names stored in the file
RECURSIVE Utf8Encode(_)
Utf8Encode(chars) ==
    IF chars = <<>> THEN <<>>
    ELSE LET c == Head(chars) IN
         (IF c < 128 THEN <<c>>
          ELSE IF c < 2048 THEN <<192 + (c \div 64), 128 + (c % 64)>>
          ELSE IF c < 65536
              THEN <<224 + (c \div 4096), 128 + ((c \div 64) % 64), 128 + (c % 64)>>
          ELSE <<240 + (c \div 262144), 128 + ((c \div 4096) % 64),
                 128 + ((c \div 64) % 64), 128 + (c % 64)>>)
         \o Utf8Encode(Tail(chars))

\* fields 1..7 of the header: magic 0x1122334455667788, file id 99,
\* version 1, block size, first free block -1, parameter count
HeaderBytes(bs, pcount) ==
    <<17, 34, 51, 68, 85, 102, 119, 136>> \o <<0, 0, 0, 0, 0, 0, 0, 99>>
        \o Pack_i(1) \o Pack_i(bs) \o Pack_i(-1) \o Pack_i(pcount)

\* field 8: one stored parameter {name length, name, value}
WellFormedEntry(chars, v) ==
    [nl |-> Len(Utf8Encode(chars)), raw |-> Utf8Encode(chars), value |-> v,
     chars |-> chars, wf |-> TRUE]

MalformedEntry(nl, raw, v) ==
    [nl |-> nl, raw |-> raw, value |-> v, chars |-> <<>>, wf |-> FALSE]

EntryBytes(e) == Pack_i(e.nl) \o e.raw \o Pack_i(e.value)

TableBytes(table) == Concat([j \in 1..Len(table) |-> EntryBytes(table[j])])

\* a user block: flags, buffer id (or next empty index), payload
BlockBytes(b, bs) ==
    <<b.flags>> \o Pack_i(b.block_id)
        \o [j \in 1..(bs - PrefixLen) |-> IF b.flags = 1 THEN 0 ELSE j % 256]

\* the header block is padded to the block size when the table fits in it
Aligned(g) == HeaderLen + Len(TableBytes(g.table)) <= g.bs

HeaderBlock(g) ==
    LET used == HeaderBytes(g.bs, g.pcount) \o TableBytes(g.table) IN
    IF Aligned(g) THEN used \o [j \in 1..(g.bs - Len(used)) |-> 0] ELSE used

FullBytes(g) ==
    HeaderBlock(g)
        \o Concat([j \in 1..Len(g.blocks) |-> BlockBytes(g.blocks[j], g.bs)])

\* ----------------------------------------------------------- input space
BlockSizes == {0, 48}

ParamCounts == (0 - 1)..MaxParams

\* names "x", "y" and U+00E9; a name length of -1, of -2, of 10 with one
\* byte of name; a name that is not UTF-8
ParamEntries ==
    {WellFormedEntry(<<120>>, 7), WellFormedEntry(<<120>>, 8),
     WellFormedEntry(<<121>>, 7), WellFormedEntry(<<233>>, 0 - 9),
     MalformedEntry(0 - 1, <<120>>, 7), MalformedEntry(0 - 2, <<120>>, 7),
     MalformedEntry(10, <<120>>, 7), MalformedEntry(1, <<255>>, 7)}

BlockIds == {0 - 3, 0 - 1, 5} \cup 0..(MaxBlocks - 1)

BlockKinds ==
    {[flags |-> IF i < 0 THEN 1 ELSE 0, block_id |-> i] : i \in BlockIds}
        \cup {[flags |-> 1, block_id |-> 0]}

\* every table is written with the block size 48; the files with a block
\* size of 0 carry no table, those with data blocks none or the table {x: 7}
Gens ==
    {[bs |-> 48, pcount |-> c, table |-> t, blocks |-> <<>>] :
        c \in ParamCounts, t \in SeqsUpTo(ParamEntries, MaxParams)}
    \cup
    {[bs |-> b, pcount |-> c, table |-> <<>>, blocks |-> <<>>] :
        b \in BlockSizes, c \in ParamCounts}
    \cup
    {[bs |-> 48, pcount |-> Len(t), table |-> t, blocks |-> k] :
        t \in {<<>>, <<WellFormedEntry(<<120>>, 7)>>},
        k \in SeqsUpTo(BlockKinds, MaxBlocks) \ {<<>>}}

\* the lengths at which the file may end: inside the last block (after each
\* byte of its prefix, after the first and before the last byte of its
\* payload), inside the table, inside the header, or at the end of what was
\* written
Cuts(g) ==
    LET full == Len(FullBytes(g)) IN
    IF g.blocks # <<>>
        THEN {full - g.bs + k : k \in 1..(PrefixLen + 1)} \cup {full - 1, full}
    ELSE IF g.table # <<>>
        THEN (HeaderLen + 1)..(HeaderLen + Len(TableBytes(g.table))) \cup {full}
    ELSE 0..HeaderLen \cup {full}

\* ------------------------------------------------------------ python dict
\* a list of pairs instead of a mapping: every assignment appends
DictSet_Append(d, k, v) == Append(d, <<k, v>>)

\* d[k] = v: an existing key keeps its position, a new key goes last
DictSet(d, k, v) ==
    IF \E j \in 1..Len(d) : d[j][1] = k
    THEN [j \in 1..Len(d) |-> IF d[j][1] = k THEN <<k, v>> ELSE d[j]]
    ELSE Append(d, <<k, v>>)

\* ------------------------------------------------------- get_buffer_block
Raise(e) == [exc |-> e, flags |-> <<>>, block_data |-> <<>>, block_id |-> 0]

\* the offset without the header block
BlockOffset_NoHeaderBlock(bs, block_index) == block_index * bs

BlockOffset(bs, block_index) == (block_index + 1) * bs

GetBufferBlock(f, bs, block_index) ==
    LET offset == BlockOffset(bs, block_index)
        flags == Read(f, offset, 1)
        id_data == Read(f, offset + Len(flags), 4)
        block_data == Read(f, offset + Len(flags) + Len(id_data), bs - PrefixLen)
    IN  IF SeekRaises(offset) THEN Raise(SeekError)
        ELSE IF flags = <<>> THEN Raise(BlockOutOfRange)
        ELSE IF Len(id_data) # 4 THEN Raise(StructError)
        ELSE IF ReadRaises(bs - PrefixLen) THEN Raise(ReadLengthError)
        ELSE IF Len(block_data) < bs - PrefixLen THEN Raise(BlockOutOfRange)
        ELSE [exc |-> NoExc, flags |-> flags, block_data |-> block_data,
              block_id |-> Unpack_i(id_data)]

\* ------------------------------------------------------------------ Init
\* __init__ has zeroed the fields and is about to call _read_header
Init ==
    /\ \E g \in Gens : \E cut \in Cuts(g) :
           /\ gen = g
           /\ file = Take(FullBytes(g), cut)
    /\ pc = "init"
    /\ magic_number = 0
    /\ file_id = 0
    /\ version = 0
    /\ block_size = 0
    /\ first_free_block = 0
    /\ user_param_count = 0
    /\ user_params = <<>>
    /\ f_pos = 0
    /\ p_i = 0
    /\ exc = NoExc
    /\ block_id = 0
    /\ idx = None
    /\ printed = None
    /\ arg = None
    /\ ret = NoResult

\* --------------------------------------------------------------- actions
\* _read_header without the length check: a short header is zero-filled
ReadHeader_ZeroFill ==
    /\ pc = "init"
    /\ LET short == Read(file, 0, HeaderLen)
           header == short \o [j \in 1..(HeaderLen - Len(short)) |-> 0]
           h == UnpackHeader(header)
       IN  /\ magic_number' = h[1]
           /\ file_id' = h[2]
           /\ version' = h[3]
           /\ block_size' = h[4]
           /\ first_free_block' = h[5]
           /\ user_param_count' = h[6]
           /\ pc' = "params"
           /\ f_pos' = HeaderLen
           /\ exc' = NoExc
    /\ UNCHANGED <<file, gen, user_params, p_i, block_id, idx, printed, arg, ret>>

\* _read_header
ReadHeader ==
    /\ pc = "init"
    /\ LET header == Read(file, 0, HeaderLen) IN
       IF Len(header) < HeaderLen
       THEN /\ pc' = "raised"
            /\ exc' = HeaderTooShort
            /\ UNCHANGED <<magic_number, file_id, version, block_size,
                           first_free_block, user_param_count, f_pos>>
       ELSE LET h == UnpackHeader(header) IN
            /\ magic_number' = h[1]
            /\ file_id' = h[2]
            /\ version' = h[3]
            /\ block_size' = h[4]
            /\ first_free_block' = h[5]
            /\ user_param_count' = h[6]
            /\ pc' = "params"
            /\ f_pos' = HeaderLen
            /\ exc' = NoExc
    /\ UNCHANGED <<file, gen, user_params, p_i, block_id, idx, printed, arg, ret>>

\* the loop body without the check of the name's length
ParamEntry_NoNameCheck(f, pos) ==
    LET name_length_data == Read(f, pos, 4)
        name_length == Unpack_i(name_length_data)
        pos1 == pos + 4
        name_data == Read(f, pos1, name_length)
        name == Utf8Decode(name_data)
        pos2 == pos1 + Len(name_data)
        value_data == Read(f, pos2, 4)
        fail(e) == [exc |-> e, name |-> <<>>, value |-> 0, pos |-> pos]
    IN  IF Len(name_length_data) < 4 THEN fail(NameLengthShort)
        ELSE IF ReadRaises(name_length) THEN fail(ReadLengthError)
        ELSE IF ~name.ok THEN fail(DecodeError)
        ELSE IF Len(value_data) < 4 THEN fail(ValueShort)
        ELSE [exc |-> NoExc, name |-> name.chars,
              value |-> Unpack_i(value_data), pos |-> pos2 + 4]

\* one iteration of the loop of _read_user_params
ParamEntry(f, pos) ==
    LET name_length_data == Read(f, pos, 4)
        name_length == Unpack_i(name_length_data)
        pos1 == pos + 4
        name_data == Read(f, pos1, name_length)
        name == Utf8Decode(name_data)
        pos2 == pos1 + Len(name_data)
        value_data == Read(f, pos2, 4)
        fail(e) == [exc |-> e, name |-> <<>>, value |-> 0, pos |-> pos]
    IN  IF Len(name_length_data) < 4 THEN fail(NameLengthShort)
        ELSE IF ReadRaises(name_length) THEN fail(ReadLengthError)
        ELSE IF Len(name_data) < name_length THEN fail(NameShort)
        ELSE IF ~name.ok THEN fail(DecodeError)
        ELSE IF Len(value_data) < 4 THEN fail(ValueShort)
        ELSE [exc |-> NoExc, name |-> name.chars,
              value |-> Unpack_i(value_data), pos |-> pos2 + 4]

ReadUserParamsEntry ==
    /\ pc = "params"
    /\ p_i < user_param_count
    /\ LET r == ParamEntry(file, f_pos) IN
       IF r.exc # NoExc
       THEN /\ pc' = "raised"
            /\ exc' = r.exc
            /\ UNCHANGED <<user_params, f_pos, p_i>>
       ELSE /\ user_params' = DictSet(user_params, r.name, r.value)
            /\ f_pos' = r.pos
            /\ p_i' = p_i + 1
            /\ UNCHANGED <<pc, exc>>
    /\ UNCHANGED <<file, gen, magic_number, file_id, version, block_size,
                   first_free_block, user_param_count, block_id, idx, printed,
                   arg, ret>>

\* range(user_param_count) is exhausted: __init__ returns
ReadUserParamsDone ==
    /\ pc = "params"
    /\ p_i >= user_param_count
    /\ pc' = "loaded"
    /\ UNCHANGED <<file, gen, magic_number, file_id, version, block_size,
                   first_free_block, user_param_count, user_params, f_pos, p_i,
                   exc, block_id, idx, printed, arg, ret>>

\* a caller's get_buffer_block(i) on the loaded object
CallIndices == (0 - 1)..(MaxBlocks + 1)

CallGetBufferBlock ==
    /\ pc = "loaded"
    /\ \E i \in CallIndices :
           /\ arg' = <<i>>
           /\ ret' = GetBufferBlock(file, block_size, i)
    /\ UNCHANGED <<file, gen, pc, magic_number, file_id, version, block_size,
                   first_free_block, user_param_count, user_params, f_pos, p_i,
                   exc, block_id, idx, printed>>

\* info(), up to the first get_buffer_block(0), which is outside the try.
\* __main__ calls info() right after the construction; get_buffer_block
\* changes nothing of the object, so info() after a caller's reads would run
\* as it does here
InfoFirstBlock ==
    /\ pc = "loaded"
    /\ arg = None
    /\ LET r == GetBufferBlock(file, block_size, 0) IN
       /\ idx' = <<0>>
       /\ IF r.exc # NoExc
          THEN /\ pc' = "raised"
               /\ exc' = r.exc
               /\ UNCHANGED block_id
          ELSE /\ pc' = "counting"
               /\ block_id' = r.block_id
               /\ UNCHANGED exc
    /\ UNCHANGED <<file, gen, magic_number, file_id, version, block_size,
                   first_free_block, user_param_count, user_params, f_pos, p_i,
                   printed, arg, ret>>

\* the while loop of info(), line 99: block_id += 1
InfoIncrement ==
    /\ pc = "counting"
    /\ block_id' = block_id + 1
    /\ pc' = "reading"
    /\ UNCHANGED <<file, gen, magic_number, file_id, version, block_size,
                   first_free_block, user_param_count, user_params, f_pos, p_i,
                   exc, idx, printed, arg, ret>>

\* the while loop of info(), lines 100-104: the read under try; a ValueError
\* breaks the loop and block_id is printed as the number of blocks read
InfoRead ==
    /\ pc = "reading"
    /\ LET r == GetBufferBlock(file, block_size, block_id) IN
       /\ idx' = <<block_id>>
       /\ IF r.exc = NoExc
          THEN /\ block_id' = r.block_id
               /\ pc' = "counting"
               /\ UNCHANGED <<exc, printed>>
          ELSE IF CaughtByExceptValueError(r.exc)
          THEN /\ pc' = "reported"
               /\ printed' = <<block_id>>
               /\ UNCHANGED <<exc, block_id>>
          ELSE /\ pc' = "raised"
               /\ exc' = r.exc
               /\ UNCHANGED <<printed, block_id>>
    /\ UNCHANGED <<file, gen, magic_number, file_id, version, block_size,
                   first_free_block, user_param_count, user_params, f_pos, p_i,
                   arg, ret>>

Next ==
    \/ ReadHeader
    \/ ReadUserParamsEntry
    \/ ReadUserParamsDone
    \/ CallGetBufferBlock
    \/ InfoFirstBlock
    \/ InfoIncrement
    \/ InfoRead

Spec == Init /\ [][Next]_vars

\* the interpreter keeps running the loop of info()
FairSpec == Spec /\ WF_vars(InfoIncrement) /\ WF_vars(InfoRead)

\* ================================================================ claims
\* the number N of full blocks after the header block of a file that is
\* exactly (N+1) blocks long
ExactBlocks == block_size > PrefixLen /\ Len(file) % block_size = 0
FullBlocks == (Len(file) \div block_size) - 1

\* __init__ returned normally (info() may have run since)
Constructed == pc \in {"loaded", "counting", "reading", "reported"}
                   \/ (pc = "raised" /\ idx # None)
ConstructionAborted == pc = "raised" /\ idx = None

\* C1: in a file of exactly (N+1)*block_size bytes with block_size > 5,
\* get_buffer_block(i) succeeds for every i in 0..N-1 and returns the flag
\* byte, the block_id and the block_size-5 payload bytes stored at offset
\* (i+1)*block_size (which are those the writer stored for block i), and
\* get_buffer_block(N) fails with "Block index out of range."
C1_ExactBlocksRead ==
    (arg # None /\ ExactBlocks) =>
        LET i == arg[1]
            off == (i + 1) * block_size
        IN
        /\ (i >= 0 /\ i < FullBlocks) =>
              /\ ret.exc = NoExc
              /\ ret.flags = <<file[off + 1]>>
              /\ Pack_i(ret.block_id) = SubSeq(file, off + 2, off + PrefixLen)
              /\ Len(ret.block_data) = block_size - PrefixLen
              /\ ret.block_data = SubSeq(file, off + PrefixLen + 1, off + block_size)
              /\ (Aligned(gen) /\ i < Len(gen.blocks)) =>
                    /\ ret.flags = <<gen.blocks[i + 1].flags>>
                    /\ ret.block_id = gen.blocks[i + 1].block_id
        /\ (i = FullBlocks) => ret.exc = BlockOutOfRange

C1_Witness ==
    /\ arg = <<1>>
    /\ ExactBlocks
    /\ FullBlocks = 2
    /\ ret.exc = NoExc
    /\ ret.block_id = gen.blocks[2].block_id

\* C2: when info() reports a count for a file with exactly N >= 1 full
\* blocks after the header, the count is N
C2_ReportsN ==
    (pc = "reported" /\ ExactBlocks /\ FullBlocks >= 1) => printed = <<FullBlocks>>

\* C3: the indices info() passes to get_buffer_block are 0, 1, 2, ...: the
\* first read is of index 0 and every later read is of the previous index + 1
C3_Sequential ==
    [][/\ (pc = "loaded" /\ pc' # "loaded") => idx' = <<0>>
       /\ (pc = "reading" /\ pc' # "reading") => idx' = <<idx[1] + 1>>]_vars

\* C4: once the file is loaded (block_size > 5), info() never ends with an
\* exception of a block read propagated to its caller
C4_NoPropagation == (idx # None /\ block_size > PrefixLen) => pc # "raised"

\* C5: get_buffer_block(i), i >= 0, of a block that is not completely present
\* (fewer than block_size bytes from offset (i+1)*block_size) fails with
\* "Block index out of range." and with nothing else
C5_ShortBlockOutOfRange ==
    (/\ arg # None
     /\ arg[1] >= 0
     /\ block_size > PrefixLen
     /\ Len(file) < (arg[1] + 2) * block_size) => ret.exc = BlockOutOfRange

\* C6: for a file shorter than 32 bytes the construction aborts with "File is
\* too short to contain a valid header.", no header field is decoded and the
\* parameter table read is never started
C6_TruncatedHeader ==
    (Len(file) < HeaderLen /\ pc # "init") =>
        /\ pc = "raised"
        /\ exc = HeaderTooShort
        /\ magic_number = 0 /\ file_id = 0 /\ version = 0 /\ block_size = 0
        /\ first_free_block = 0 /\ user_param_count = 0
        /\ user_params = <<>> /\ f_pos = 0 /\ p_i = 0
        /\ idx = None /\ arg = None

C6_Witness == Len(file) = HeaderLen - 1 /\ pc = "raised" /\ exc = HeaderTooShort

\* the short reads of the entry at the cursor f_pos
Remaining(pos) == IF Len(file) > pos THEN Len(file) - pos ELSE 0
NameLengthAt == Unpack_i(SubSeq(file, f_pos + 1, f_pos + 4))
NameLengthIsShort == Remaining(f_pos) < 4
NameIsShort ==
    /\ ~NameLengthIsShort
    /\ NameLengthAt >= 0
    /\ Remaining(f_pos + 4) < NameLengthAt
NameBytesAt ==
    IF NameLengthAt = 0 - 1 THEN SubSeq(file, f_pos + 5, Len(file))
    ELSE SubSeq(file, f_pos + 5, f_pos + 4 + NameLengthAt)
ValueIsShort ==
    /\ ~NameLengthIsShort
    /\ NameLengthAt >= 0 - 1
    /\ ~NameIsShort
    /\ Utf8Decode(NameBytesAt).ok
    /\ Remaining(f_pos + 4 + Len(NameBytesAt)) < 4
DecodingEntry == pc = "params" /\ p_i < user_param_count

\* C7: while entry i < param_count is decoded, a short read of name_length,
\* of the name or of the value raises the corresponding "Unexpected end of
\* file" error; the entry is not recorded, no later entry is read and the
\* construction is over (nothing happens after the raise)
C7_TruncatedParameter ==
    [][/\ (DecodingEntry /\ (NameLengthIsShort \/ NameIsShort \/ ValueIsShort)) =>
              /\ pc' = "raised"
              /\ exc' = (IF NameLengthIsShort THEN NameLengthShort
                         ELSE IF NameIsShort THEN NameShort ELSE ValueShort)
              /\ UNCHANGED <<user_params, p_i, f_pos, idx>>
       /\ ConstructionAborted => UNCHANGED vars]_vars

C7_Witness ==
    /\ ConstructionAborted
    /\ exc = NameShort
    /\ Len(user_params) = 1
    /\ p_i = 1

\* C8: a file holding param_count = k complete entries from offset 32 loads;
\* the mapping holds exactly the names of those entries, each with the value
\* of the last entry of that name, in the order of the names' first
\* occurrence, and the cursor ends right after the k entries (k = 0: empty
\* mapping, cursor at 32)
CompleteTable ==
    /\ gen.pcount = Len(gen.table)
    /\ \A j \in 1..Len(gen.table) : gen.table[j].wf
    /\ Len(file) >= HeaderLen + Len(TableBytes(gen.table))
FirstOccurrence(name) ==
    CHOOSE j \in 1..Len(gen.table) :
        /\ gen.table[j].chars = name
        /\ \A k \in 1..(j - 1) : gen.table[k].chars # name
LastOccurrence(name) ==
    CHOOSE j \in 1..Len(gen.table) :
        /\ gen.table[j].chars = name
        /\ \A k \in (j + 1)..Len(gen.table) : gen.table[k].chars # name
C8_ParameterMapping ==
    (CompleteTable /\ pc \notin {"init", "params"}) =>
        /\ Constructed
        /\ f_pos = HeaderLen + Len(TableBytes(gen.table))
        /\ {user_params[a][1] : a \in 1..Len(user_params)}
               = {gen.table[j].chars : j \in 1..Len(gen.table)}
        /\ \A a \in 1..Len(user_params) :
               user_params[a][2] = gen.table[LastOccurrence(user_params[a][1])].value
        /\ \A a, b \in 1..Len(user_params) :
               a < b => FirstOccurrence(user_params[a][1])
                            < FirstOccurrence(user_params[b][1])

C8_Witness ==
    /\ pc = "loaded"
    /\ CompleteTable
    /\ Len(gen.table) = 2
    /\ gen.table[1].chars = gen.table[2].chars
    /\ gen.table[1].value # gen.table[2].value
    /\ user_params = <<<<gen.table[2].chars, gen.table[2].value>>>>

\* C9: the count loop of info() terminates: once started it reaches the
\* end of info(), by a reported count or a propagated exception
C9_CountLoopTerminates ==
    (pc \in {"counting", "reading"}) ~> (pc \in {"reported", "raised"})

\* C10 as stated: an entry with a negative name_length ends with one of the
\* "Unexpected end of file" errors and records nothing
NegativeNameLength == DecodingEntry /\ ~NameLengthIsShort /\ NameLengthAt < 0
C10_NegativeLengthTruncation ==
    [][NegativeNameLength =>
          /\ pc' = "raised"
          /\ exc' \in {NameLengthShort, NameShort, ValueShort}
          /\ UNCHANGED <<user_params, p_i>>]_vars

\* C10 amended: an entry with a negative name_length records nothing and ends
\* with a ValueError: for name_length < -1 the one raised by read(), for
\* name_length = -1 the value truncation error or, when the rest of the file
\* is not UTF-8, the decoding error
C10_NegativeLengthValueError ==
    [][NegativeNameLength =>
          /\ pc' = "raised"
          /\ CaughtByExceptValueError(exc')
          /\ exc' = (IF NameLengthAt < 0 - 1 THEN ReadLengthError
                     ELSE IF Utf8Decode(NameBytesAt).ok THEN ValueShort
                     ELSE DecodeError)
          /\ UNCHANGED <<user_params, p_i>>]_vars

C10_Witness ==
    /\ ConstructionAborted
    /\ exc = ReadLengthError
    /\ Len(user_params) = 1
====
